---- MODULE Spec2Model ----
(***************************************************************************)
(* Typed gateway client layer of natalysoliton/performance-tests:          *)
(* HTTPClient (clients/http/client.py) and the Cards, Documents and        *)
(* Operations resource clients built on it.  Every client method opens an  *)
(* httpx.Client in a `with` block, sends one request and returns the raw   *)
(* response; the two high-level document methods then check the status     *)
(* and decode the body.  The three workflow scripts                        *)
(* (api_client_get_documents.py, httpx_get_operation_receipt.py,           *)
(* httpx_open_deposit_account.py) chain such calls and end the process.    *)
(***************************************************************************)
EXTENDS Integers, Sequences, FiniteSets, TLC

VARIABLES
    ctor,       \* the arguments the handle was constructed with
    handle,     \* HTTPClient instance attributes: base_url, timeout
    clients,    \* heap of httpx.Client objects: id -> [state, base_url, timeout]
    pc,         \* per thread: position inside the client method
    call,       \* per thread: the method being run and its argument
    client,     \* per thread: the `client` local of the with block (id, 0 = unbound)
    response,   \* per thread: what client.get/post produced (response or exception)
    result,     \* per thread: what the method handed to its caller
    wire,       \* per thread: the exchange the server saw for this call
    opened,     \* per thread: httpx.Client objects created by the current call
    sent,       \* per thread: requests put on the wire by the current call
    memo,       \* per thread: the server's answer to the immediately preceding
                \* identical GET of this thread (history variable)
    script,     \* the workflow script being run: its position, the ids it
                \* holds, the exchanges it made so far and how it ended
    passed      \* per thread: the argument as the caller passed it (history
                \* variable; call[t].arg is the caller's object as it is now)

vars == <<ctor, handle, clients, pc, call, client, response, result, wire,
          opened, sent, memo, script, passed>>

\* Number of caller threads sharing the handle.
NumThreads == 2

Threads == 1..NumThreads
MainThread == CHOOSE t \in Threads : \A u \in Threads : t <= u
ClientIds == 1..NumThreads

-----------------------------------------------------------------------------
(* Python values: a tag and a payload.  Scalars carry their text, a dict   *)
(* carries its items in insertion order.                                   *)

PyNone == [t |-> "None", v |-> ""]
PyStr(s) == [t |-> "str", v |-> s]
PyInt(s) == [t |-> "int", v |-> s]
PyFloat(s) == [t |-> "float", v |-> s]
PyDict(items) == [t |-> "dict", v |-> items]
PyList(items) == [t |-> "list", v |-> items]

Keys(d) == {d.v[i][1] : i \in DOMAIN d.v}
Item(d, k) == (CHOOSE i \in DOMAIN d.v : d.v[i][1] = k)
Lookup(d, k) == d.v[Item(d, k)][2]

\* An exception raised while a Python expression is evaluated, carried in
\* place of the value the expression would have had.
PyError(exception) == [t |-> exception, v |-> ""]
Raises(x) ==
    x.t \in {"AttributeError", "KeyError", "IndexError", "TypeError",
             "JSONDecodeError"}

\* d.get(key, default): only a dict has .get.
dict_get(d, key, default) ==
    IF Raises(d) THEN d
    ELSE IF d.t # "dict" THEN PyError("AttributeError")
    ELSE IF key \in Keys(d) THEN Lookup(d, key)
    ELSE default

\* x[key] with a string key.
getitem(x, key) ==
    IF Raises(x) THEN x
    ELSE IF x.t # "dict" THEN PyError("TypeError")
    ELSE IF key \in Keys(x) THEN Lookup(x, key)
    ELSE PyError("KeyError")

\* x[0]
getitem_0(x) ==
    IF Raises(x) THEN x
    ELSE CASE x.t = "list" -> IF x.v = <<>> THEN PyError("IndexError") ELSE x.v[1]
           [] x.t = "dict" -> PyError("KeyError")
           [] x.t = "str" -> IF x.v = "" THEN PyError("IndexError") ELSE x
                \* (a character of a string is a string again)
           [] OTHER -> PyError("TypeError")

\* `not x`: None, zero and everything empty are false.
py_not(x) ==
    CASE x.t = "None" -> TRUE
      [] x.t = "str" -> x.v = ""
      [] x.t = "int" -> x.v = "0"
      [] x.t = "float" -> x.v = "0.0"
      [] x.t \in {"dict", "list"} -> x.v = <<>>

\* The items of a dict whose value is not None.
RECURSIVE WithoutNone(_)
WithoutNone(items) ==
    IF items = <<>> THEN <<>>
    ELSE (IF Head(items)[2].t = "None" THEN <<>> ELSE <<Head(items)>>)
            \o WithoutNone(Tail(items))

-----------------------------------------------------------------------------
(* JSON text, as the tree its tokens spell; a body that is not JSON is     *)
(* plain text.                                                             *)

JNull == [t |-> "null", v |-> ""]
JString(s) == [t |-> "string", v |-> s]
JNumber(s) == [t |-> "number", v |-> s]
JObject(members) == [t |-> "object", v |-> members]
JArray(elements) == [t |-> "array", v |-> elements]
Text(s) == [t |-> "text", v |-> s]

\* Number literals without a fraction or exponent decode to int.
IntLiterals == {"0", "10", "20", "50000"}

\* Variant: members whose value is None are left out of the object.
RECURSIVE json_dumps_skip_none(_)
json_dumps_skip_none(x) ==
    CASE x.t = "None" -> JNull
      [] x.t = "str" -> JString(x.v)
      [] x.t = "int" -> JNumber(x.v)
      [] x.t = "float" -> JNumber(x.v)
      [] x.t = "dict" ->
            LET kept == WithoutNone(x.v)
            IN  JObject([i \in DOMAIN kept |->
                            <<kept[i][1], json_dumps_skip_none(kept[i][2])>>])

\* httpx encodes the json= argument with json.dumps.
RECURSIVE json_dumps(_)
json_dumps(x) ==
    CASE x.t = "None" -> JNull
      [] x.t = "str" -> JString(x.v)
      [] x.t = "int" -> JNumber(x.v)
      [] x.t = "float" -> JNumber(x.v)
      [] x.t = "dict" ->
            JObject([i \in DOMAIN x.v |-> <<x.v[i][1], json_dumps(x.v[i][2])>>])
      [] x.t = "list" -> JArray([i \in DOMAIN x.v |-> json_dumps(x.v[i])])

\* Variant: every number decodes to float.
RECURSIVE json_loads_float_numbers(_)
json_loads_float_numbers(j) ==
    CASE j.t = "null" -> PyNone
      [] j.t = "string" -> PyStr(j.v)
      [] j.t = "number" -> PyFloat(j.v)
      [] j.t = "object" ->
            PyDict([i \in DOMAIN j.v |->
                        <<j.v[i][1], json_loads_float_numbers(j.v[i][2])>>])
      [] OTHER -> [t |-> "JSONDecodeError", v |-> ""]

\* Response.json(): json.loads of the body; fails on a body that is not JSON.
JSONDecodeError == [t |-> "JSONDecodeError", v |-> ""]

RECURSIVE json_loads(_)
json_loads(j) ==
    CASE j.t = "null" -> PyNone
      [] j.t = "string" -> PyStr(j.v)
      [] j.t = "number" -> IF j.v \in IntLiterals THEN PyInt(j.v) ELSE PyFloat(j.v)
      [] j.t = "object" ->
            PyDict([i \in DOMAIN j.v |-> <<j.v[i][1], json_loads(j.v[i][2])>>])
      [] j.t = "array" -> PyList([i \in DOMAIN j.v |-> json_loads(j.v[i])])
      [] OTHER -> JSONDecodeError

Decodable(body) == body.t # "text"

-----------------------------------------------------------------------------
(* httpx request building.                                                 *)

\* httpx QueryParams: every value goes through primitive_value_to_str,
\* which renders None as the empty string (True/False as "true"/"false",
\* anything else with str()).
primitive_value_to_str(x) == IF x.t = "None" THEN "" ELSE x.v

\* The query string as its <<name, value>> pairs, in the order of the dict.
QueryParams(params) ==
    IF params.t = "None" THEN <<>>
    ELSE [i \in DOMAIN params.v |->
            <<params.v[i][1], primitive_value_to_str(params.v[i][2])>>]

\* Headers every httpx.Client sends unless the call overrides them.
DefaultHeaders ==
    ("Accept" :> "*/*") @@ ("Connection" :> "keep-alive") @@
    ("User-Agent" :> "python-httpx")

AcceptJson == ("Accept" :> "application/json")
ContentJson ==
    ("Content-Type" :> "application/json") @@ ("Accept" :> "application/json")

NoBody == Text("")

\* client.get(url=, params=, headers=) / client.post(url=, json=, headers=):
\* the request that goes on the wire for the keyword arguments `a`, built by
\* the client object `cl`.
BuildRequest(cl, a) ==
    [verb |-> a.verb,
     base_url |-> cl.base_url,
     timeout |-> cl.timeout,
     path |-> a.url,
     query |-> QueryParams(a.params),
     body |-> IF a.json.t = "None" THEN NoBody ELSE json_dumps(a.json),
     headers |-> a.headers @@
                 (IF a.json.t = "None" THEN <<>>
                  ELSE ("Content-Type" :> "application/json")) @@
                 DefaultHeaders]

client_get(url, params, headers) ==
    [verb |-> "GET", url |-> url, params |-> params, json |-> PyNone,
     headers |-> headers]

client_post(url, json, headers) ==
    [verb |-> "POST", url |-> url, params |-> PyNone, json |-> json,
     headers |-> headers]

-----------------------------------------------------------------------------
(* The low-level methods: the endpoint each builds and the keyword         *)
(* arguments it hands to client.get / client.post.                         *)

\* CardsGatewayHTTPClient
issue_virtual_card_api(request) ==
    client_post(<<"api", "v1", "cards", "issue-virtual-card">>, request, ContentJson)

issue_physical_card_api(request) ==
    client_post(<<"api", "v1", "cards", "issue-physical-card">>, request, ContentJson)

\* DocumentsGatewayHTTPClient
get_tariff_document_api(account_id) ==
    client_get(<<"api", "v1", "documents", "tariff-document">>,
               PyDict(<<<<"accountId", account_id>>>>), AcceptJson)

get_contract_document_api(account_id) ==
    client_get(<<"api", "v1", "documents", "contract-document">>,
               PyDict(<<<<"accountId", account_id>>>>), AcceptJson)

\* OperationsGatewayHTTPClient
get_operation_api(operation_id) ==
    client_get(<<"api", "v1", "operations", operation_id.v>>, PyNone, AcceptJson)

\* Variant: the receipt method passes no headers of its own.
get_operation_receipt_api_no_headers(operation_id) ==
    client_get(<<"api", "v1", "operations", "operation-receipt", operation_id.v>>,
               PyNone, <<>>)

get_operation_receipt_api(operation_id) ==
    client_get(<<"api", "v1", "operations", "operation-receipt", operation_id.v>>,
               PyNone, AcceptJson)

get_operations_api(query_params) ==
    client_get(<<"api", "v1", "operations">>, query_params, AcceptJson)

get_operations_summary_api(query_params) ==
    client_get(<<"api", "v1", "operations", "operations-summary">>,
               query_params, AcceptJson)

make_fee_operation_api(request) ==
    client_post(<<"api", "v1", "operations", "make-fee-operation">>,
                request, ContentJson)

\* Variant: the top-up method posts to the fee endpoint.
make_top_up_operation_api_fee_path(request) ==
    client_post(<<"api", "v1", "operations", "make-fee-operation">>,
                request, ContentJson)

make_top_up_operation_api(request) ==
    client_post(<<"api", "v1", "operations", "make-top-up-operation">>,
                request, ContentJson)

make_cashback_operation_api(request) ==
    client_post(<<"api", "v1", "operations", "make-cashback-operation">>,
                request, ContentJson)

\* Variant: the transfer method deletes the None entries of the request
\* before posting it.
make_transfer_operation_api_strips_none(request) ==
    client_post(<<"api", "v1", "operations", "make-transfer-operation">>,
                PyDict(WithoutNone(request.v)), ContentJson)

make_transfer_operation_api(request) ==
    client_post(<<"api", "v1", "operations", "make-transfer-operation">>,
                request, ContentJson)

make_purchase_operation_api(request) ==
    client_post(<<"api", "v1", "operations", "make-purchase-operation">>,
                request, ContentJson)

make_bill_payment_operation_api(request) ==
    client_post(<<"api", "v1", "operations", "make-bill-payment-operation">>,
                request, ContentJson)

make_cash_withdrawal_operation_api(request) ==
    client_post(<<"api", "v1", "operations", "make-cash-withdrawal-operation">>,
                request, ContentJson)

CardsApi == {"issue_virtual_card_api", "issue_physical_card_api"}
DocumentsApi == {"get_tariff_document_api", "get_contract_document_api"}
OperationsReadApi ==
    {"get_operation_api", "get_operation_receipt_api", "get_operations_api",
     "get_operations_summary_api"}
OperationsWriteApi ==
    {"make_fee_operation_api", "make_top_up_operation_api",
     "make_cashback_operation_api", "make_transfer_operation_api",
     "make_purchase_operation_api", "make_bill_payment_operation_api",
     "make_cash_withdrawal_operation_api"}

LowLevel == CardsApi \cup DocumentsApi \cup OperationsReadApi \cup OperationsWriteApi
WriteApi == CardsApi \cup OperationsWriteApi
ReadApi == DocumentsApi \cup OperationsReadApi
HighLevel == {"get_tariff_document", "get_contract_document"}

\* The low-level method a method name runs (a high-level method calls its
\* own *_api method first).
ApiOf(name) ==
    CASE name = "get_tariff_document" -> "get_tariff_document_api"
      [] name = "get_contract_document" -> "get_contract_document_api"
      [] OTHER -> name

\* The keyword arguments the method `name` builds from its argument.
Kwargs(name, arg) ==
    CASE name = "issue_virtual_card_api" -> issue_virtual_card_api(arg)
      [] name = "issue_physical_card_api" -> issue_physical_card_api(arg)
      [] name = "get_tariff_document_api" -> get_tariff_document_api(arg)
      [] name = "get_contract_document_api" -> get_contract_document_api(arg)
      [] name = "get_operation_api" -> get_operation_api(arg)
      [] name = "get_operation_receipt_api" -> get_operation_receipt_api(arg)
      [] name = "get_operations_api" -> get_operations_api(arg)
      [] name = "get_operations_summary_api" -> get_operations_summary_api(arg)
      [] name = "make_fee_operation_api" -> make_fee_operation_api(arg)
      [] name = "make_top_up_operation_api" -> make_top_up_operation_api(arg)
      [] name = "make_cashback_operation_api" -> make_cashback_operation_api(arg)
      [] name = "make_transfer_operation_api" -> make_transfer_operation_api(arg)
      [] name = "make_purchase_operation_api" -> make_purchase_operation_api(arg)
      [] name = "make_bill_payment_operation_api" ->
            make_bill_payment_operation_api(arg)
      [] name = "make_cash_withdrawal_operation_api" ->
            make_cash_withdrawal_operation_api(arg)

\* The caller's argument object once the method has built its keyword
\* arguments: a request or query dict is handed to httpx as the object it
\* is (json=request, params=query_params), so it is what the method left in
\* that keyword; an id string cannot be changed.
ArgumentAfter(name, arg) ==
    IF name \in WriteApi THEN Kwargs(name, arg).json
    ELSE IF name \in {"get_operations_api", "get_operations_summary_api"}
    THEN Kwargs(name, arg).params
    ELSE arg

-----------------------------------------------------------------------------
(* Responses, exceptions and what a method hands to its caller.            *)

Response(status_code, body) ==
    [kind |-> "response", status_code |-> status_code, body |-> body]
Raised(exception) == [kind |-> exception, status_code |-> 0, body |-> NoBody]
NoOutcome == [kind |-> "none", status_code |-> 0, body |-> NoBody]

\* A result is a returned response, a returned decoded value or a raised
\* exception (with the response it carries, if any).
Returned(r) == [kind |-> "response", response |-> r, value |-> PyNone]
Value(v) == [kind |-> "value", response |-> NoOutcome, value |-> v]
Raise(exception, r) == [kind |-> exception, response |-> r, value |-> PyNone]
NoResult == [kind |-> "none", response |-> NoOutcome, value |-> PyNone]

TransportErrors == {"ConnectError", "ReadTimeout"}

\* httpx Response.is_success
is_success(r) == r.status_code \div 100 = 2

\* Variant: only 4xx and 5xx count as failures.
raise_for_status_errors_only(r) ==
    IF r.status_code \div 100 \in {4, 5} THEN Raise("HTTPStatusError", r)
    ELSE NoResult

\* response.raise_for_status(): raises HTTPStatusError carrying the response
\* unless the status is 2xx.
raise_for_status(r) ==
    IF is_success(r) THEN NoResult ELSE Raise("HTTPStatusError", r)

\* Variant: an undecodable body is swallowed and an empty dict returned.
json_or_empty(r) ==
    IF Decodable(r.body) THEN Value(json_loads(r.body)) ELSE Value(PyDict(<<>>))

\* response.json()
json(r) ==
    IF Decodable(r.body) THEN Value(json_loads(r.body))
    ELSE Raise("JSONDecodeError", NoOutcome)

\* Variant: the body is decoded first and the status checked afterwards.
get_tariff_document_decode_first(low) ==
    IF low.kind # "response" THEN low
    ELSE IF json(low.response).kind # "value" THEN json(low.response)
    ELSE IF raise_for_status(low.response).kind # "none"
         THEN raise_for_status(low.response)
         ELSE json(low.response)

\* The body of a high-level method, given what its *_api call produced.
get_tariff_document(low) ==
    IF low.kind # "response" THEN low
    ELSE IF raise_for_status(low.response).kind # "none"
         THEN raise_for_status(low.response)
         ELSE json(low.response)

get_contract_document(low) ==
    IF low.kind # "response" THEN low
    ELSE IF raise_for_status(low.response).kind # "none"
         THEN raise_for_status(low.response)
         ELSE json(low.response)

\* Variant: the low-level method checks the status itself.
api_return_checked(got) ==
    IF got.kind # "response" THEN Raise(got.kind, NoOutcome)
    ELSE IF got.status_code \div 100 = 2 THEN Returned(got)
    ELSE Raise("HTTPStatusError", got)

\* What the with block of a *_api method leaves: `return response`, or the
\* exception client.get/post raised, propagated through __exit__.
api_return(got) ==
    IF got.kind = "response" THEN Returned(got) ELSE Raise(got.kind, NoOutcome)

\* What the method `name` hands to its caller once its request produced `got`.
MethodResult(name, got) ==
    CASE name = "get_tariff_document" -> get_tariff_document(api_return(got))
      [] name = "get_contract_document" -> get_contract_document(api_return(got))
      [] OTHER -> api_return(got)

-----------------------------------------------------------------------------
(* The handle and the httpx.Client objects.                                *)

Resources == {"cards", "documents", "operations"}

ResourceOf(name) ==
    IF ApiOf(name) \in CardsApi THEN "cards"
    ELSE IF ApiOf(name) \in DocumentsApi THEN "documents"
    ELSE "operations"

\* str.rstrip('/') on a URL given as its pieces: trailing "/" pieces go.
RECURSIVE rstrip(_)
rstrip(url) ==
    IF url # <<>> /\ url[Len(url)] = "/" THEN rstrip(SubSeq(url, 1, Len(url) - 1))
    ELSE url

\* HTTPClient.__init__
HTTPClient_init(base_url, timeout) ==
    [base_url |-> rstrip(base_url), timeout |-> timeout]

\* owner: the thread whose with block holds the client (0: none).
NoClient == [state |-> "none", base_url |-> <<>>, timeout |-> "", owner |-> 0]

Min(S) == CHOOSE x \in S : \A y \in S : x <= y

\* Client objects no local variable refers to any more.
FreeIds == {id \in ClientIds : \A u \in Threads : client[u] # id}

\* Variant: one httpx.Client kept for the handle and handed to every call.
get_client_shared(t, h) ==
    LET id == Min(ClientIds)
    IN  [id |-> id,
         created |-> IF clients[id].state = "none" THEN 1 ELSE 0,
         self |-> h,
         heap |-> IF clients[id].state = "none"
                  THEN [clients EXCEPT ![id] =
                          [state |-> "unopened", base_url |-> h.base_url,
                           timeout |-> h.timeout, owner |-> t]]
                  ELSE clients]

\* Variant: the call leaves its own settings on the handle.
get_client_stateful(t, h) ==
    LET id == Min(FreeIds)
    IN  [id |-> id,
         created |-> 1,
         self |-> [h EXCEPT !.timeout = "0.0"],
         heap |-> [clients EXCEPT ![id] =
                     [state |-> "unopened", base_url |-> h.base_url,
                      timeout |-> h.timeout, owner |-> t]]]

\* HTTPClient._get_client as run by thread t on the handle h: a new
\* httpx.Client holding copies of the handle's base URL and timeout.
\* `self` is the handle as the call leaves it.
get_client(t, h) ==
    LET id == Min(FreeIds)
    IN  [id |-> id,
         created |-> 1,
         self |-> h,
         heap |-> [clients EXCEPT ![id] =
                     [state |-> "unopened", base_url |-> h.base_url,
                      timeout |-> h.timeout, owner |-> t]]]

\* httpx.Client.__enter__: only an unopened client can be entered.
CanEnter(cl) == cl.state = "unopened"
client_enter(heap, id) == [heap EXCEPT ![id].state = "opened"]

\* Variant: the client is closed on the normal path only.
client_exit_on_return(heap, id, exc) ==
    IF exc = "response"
    THEN [heap EXCEPT ![id] = [@ EXCEPT !.state = "closed", !.owner = 0]]
    ELSE heap

\* httpx.Client.__exit__(exc_type, ...): closes the client, whatever left
\* the block (exc is the exception kind, "response" for a normal return).
client_exit(heap, id, exc) ==
    [heap EXCEPT ![id] = [@ EXCEPT !.state = "closed", !.owner = 0]]

OpenClients == {id \in ClientIds : clients[id].state = "opened"}

NoRequest ==
    [verb |-> "", base_url |-> <<>>, timeout |-> "", path |-> <<>>,
     query |-> <<>>, body |-> NoBody, headers |-> <<>>]
NoExchange == [request |-> NoRequest, answer |-> NoOutcome]
NoCall == [name |-> "", arg |-> PyNone]

-----------------------------------------------------------------------------
(* Inputs.                                                                 *)

CtorArgs ==
    {[base_url |-> <<"http://localhost:8080">>, timeout |-> "10.0"],
     [base_url |-> <<"http://localhost:8080", "/">>, timeout |-> "5.0"]}

AccountIds == {PyStr("A1")}
OperationIds == {PyStr("op1"), PyStr("operations-summary")}

BaseOperationRequest ==
    <<<<"status", PyStr("IN_PROGRESS")>>, <<"amount", PyFloat("77.99")>>,
      <<"cardId", PyStr("C1")>>, <<"accountId", PyStr("A1")>>>>

OptionalFields ==
    <<<<"description", PyNone>>,
      <<"metadata", PyDict(<<<<"source", PyStr("app")>>, <<"retries", PyInt("0")>>>>)>>>>

CardFields ==
    <<<<"user_id", PyStr("U1")>>, <<"account_id", PyStr("A1")>>,
      <<"currency", PyStr("RUB")>>>>

\* The fields each write method's request type adds to the shared ones.
OwnFields(name) ==
    CASE name = "issue_virtual_card_api" -> CardFields
      [] name = "issue_physical_card_api" ->
            CardFields \o <<<<"delivery_address", PyStr("Moscow")>>,
                            <<"card_holder_name", PyStr("Ivan")>>>>
      [] name = "make_fee_operation_api" ->
            BaseOperationRequest \o <<<<"feeType", PyStr("service")>>>>
      [] name = "make_top_up_operation_api" ->
            BaseOperationRequest \o
                <<<<"source", PyStr("card")>>, <<"currency", PyStr("RUB")>>>>
      [] name = "make_cashback_operation_api" ->
            BaseOperationRequest \o
                <<<<"cashbackType", PyStr("promo")>>, <<"merchantId", PyNone>>>>
      [] name = "make_transfer_operation_api" ->
            BaseOperationRequest \o
                <<<<"recipientAccountId", PyStr("A2")>>,
                  <<"recipientName", PyStr("Petr")>>>>
      [] name = "make_purchase_operation_api" ->
            BaseOperationRequest \o
                <<<<"merchantId", PyStr("M1")>>, <<"merchantName", PyStr("Taxi")>>,
                  <<"category", PyStr("taxi")>>, <<"location", PyNone>>>>
      [] name = "make_bill_payment_operation_api" ->
            BaseOperationRequest \o
                <<<<"billNumber", PyStr("B1")>>, <<"billType", PyStr("tax")>>,
                  <<"providerName", PyStr("FNS")>>>>
      [] name = "make_cash_withdrawal_operation_api" ->
            BaseOperationRequest \o
                <<<<"atmId", PyNone>>, <<"atmLocation", PyStr("Moscow")>>,
                  <<"currency", PyStr("RUB")>>>>

RECURSIVE WithoutKey(_, _)
WithoutKey(items, key) ==
    IF items = <<>> THEN <<>>
    ELSE IF Head(items)[1] = key THEN WithoutKey(Tail(items), key)
    ELSE <<Head(items)>> \o WithoutKey(Tail(items), key)

\* A TypedDict is not enforced at run time: a caller can pass a purchase
\* request without its accountId.
IncompleteRequests(name) ==
    IF name = "make_purchase_operation_api"
    THEN {PyDict(WithoutKey(OwnFields(name), "accountId"))}
    ELSE {}

Requests(name) ==
    {PyDict(OwnFields(name)), PyDict(OwnFields(name) \o OptionalFields)}
        \cup IncompleteRequests(name)

OperationsQueries ==
    {PyDict(<<<<"accountId", PyStr("A1")>>>>),
     PyDict(<<<<"accountId", PyStr("A1")>>, <<"limit", PyInt("10")>>,
              <<"offset", PyInt("0")>>>>),
     PyDict(<<<<"accountId", PyStr("A1")>>, <<"limit", PyNone>>,
              <<"offset", PyNone>>, <<"startDate", PyNone>>,
              <<"endDate", PyNone>>, <<"operationType", PyNone>>>>),
     PyDict(<<<<"accountId", PyStr("A1")>>, <<"limit", PyInt("10")>>,
              <<"offset", PyNone>>, <<"startDate", PyStr("2024-01-01")>>,
              <<"endDate", PyNone>>, <<"operationType", PyStr("FEE")>>>>)}

SummaryQueries ==
    {PyDict(<<<<"accountId", PyStr("A1")>>>>),
     PyDict(<<<<"accountId", PyStr("A1")>>, <<"startDate", PyNone>>,
              <<"endDate", PyNone>>, <<"groupBy", PyNone>>>>),
     PyDict(<<<<"accountId", PyStr("A1")>>, <<"startDate", PyStr("2024-01-01")>>,
              <<"endDate", PyNone>>, <<"groupBy", PyStr("day")>>>>)}

Args(name) ==
    CASE ApiOf(name) \in DocumentsApi -> AccountIds
      [] name \in {"get_operation_api", "get_operation_receipt_api"} -> OperationIds
      [] name = "get_operations_api" -> OperationsQueries
      [] name = "get_operations_summary_api" -> SummaryQueries
      [] OTHER -> Requests(name)

Calls == UNION {{[name |-> n, arg |-> a] : a \in Args(n)} : n \in LowLevel \cup HighLevel}

TariffBody ==
    JObject(<<<<"tariff", JObject(<<<<"url", JString("http://docs/tariff.pdf")>>,
                                   <<"document", JString("tariff text")>>>>)>>>>)
ContractBody ==
    JObject(<<<<"contract", JObject(<<<<"url", JString("http://docs/contract.pdf")>>,
                                     <<"document", JString("contract text")>>>>)>>>>)
ErrorBody == JObject(<<<<"detail", JString("Not Found")>>, <<"code", JNumber("10")>>>>)
HtmlBody == Text("<html>Bad Gateway</html>")

StatusCodes == {100, 200, 302, 404, 500}
Bodies == {TariffBody, ContractBody, ErrorBody, HtmlBody, NoBody}

\* What the network can give one request: a response, or no response at all.
Outcomes ==
    {Response(sc, b) : sc \in StatusCodes, b \in Bodies}
        \cup {Raised(e) : e \in TransportErrors}

-----------------------------------------------------------------------------
(* The state machine.                                                      *)

\* No workflow script is being run.
NoScript ==
    [name |-> "", step |-> "", user_id |-> PyNone, account_id |-> PyNone,
     card_id |-> PyNone, operation_id |-> PyNone, log |-> <<>>,
     raised |-> "", exited |-> FALSE, status |-> 0]

\* No client method has been called yet.
NothingCalled ==
    /\ clients = [id \in ClientIds |-> NoClient]
    /\ pc = [t \in Threads |-> "idle"]
    /\ call = [t \in Threads |-> NoCall]
    /\ client = [t \in Threads |-> 0]
    /\ response = [t \in Threads |-> NoOutcome]
    /\ result = [t \in Threads |-> NoResult]
    /\ wire = [t \in Threads |-> NoExchange]
    /\ opened = [t \in Threads |-> 0]
    /\ sent = [t \in Threads |-> 0]
    /\ memo = [t \in Threads |-> NoOutcome]
    /\ passed = [t \in Threads |-> PyNone]

Init ==
    /\ ctor \in CtorArgs
    /\ handle = [r \in Resources |-> HTTPClient_init(ctor.base_url, ctor.timeout)]
    /\ script = NoScript
    /\ NothingCalled

\* The answer a memoizing layer would hold for the call c about to start:
\* the response to the call this thread has just finished, if that was the
\* same GET with the same argument.
Remembered(t, c) ==
    IF /\ pc[t] = "done"
       /\ call[t] = c
       /\ Kwargs(ApiOf(c.name), c.arg).verb = "GET"
       /\ wire[t].answer.kind = "response"
    THEN wire[t].answer
    ELSE NoOutcome

\* A thread calls method c.name(c.arg): the method builds its endpoint and
\* enters `with self._get_client() as client:`.
Invoke(t, c) ==
    /\ pc[t] \in {"idle", "done"}
    /\ LET made == get_client(t, handle[ResourceOf(c.name)])
       IN  /\ opened' = [opened EXCEPT ![t] = made.created]
           /\ handle' = [handle EXCEPT ![ResourceOf(c.name)] = made.self]
           /\ IF CanEnter(made.heap[made.id])
              THEN /\ clients' = client_enter(made.heap, made.id)
                   /\ client' = [client EXCEPT ![t] = made.id]
                   /\ pc' = [pc EXCEPT ![t] = "with"]
                   /\ result' = [result EXCEPT ![t] = NoResult]
              ELSE /\ clients' = made.heap
                   /\ client' = [client EXCEPT ![t] = 0]
                   /\ pc' = [pc EXCEPT ![t] = "done"]
                   /\ result' = [result EXCEPT ![t] =
                                    MethodResult(c.name, Raised("RuntimeError"))]
    /\ call' = [call EXCEPT ![t] = c]
    /\ memo' = [memo EXCEPT ![t] = Remembered(t, c)]
    /\ response' = [response EXCEPT ![t] = NoOutcome]
    /\ wire' = [wire EXCEPT ![t] = NoExchange]
    /\ sent' = [sent EXCEPT ![t] = 0]
    /\ passed' = [passed EXCEPT ![t] = c.arg]
    /\ UNCHANGED <<ctor, script>>

\* Variant: a repeated GET is answered from the stored copy of the last
\* answer instead of being sent.
SendMemoized(t, o) ==
    /\ pc[t] = "with"
    /\ IF memo[t].kind = "response"
       THEN /\ response' = [response EXCEPT ![t] = memo[t]]
            /\ UNCHANGED <<wire, sent>>
       ELSE /\ wire' = [wire EXCEPT ![t] =
                            [request |-> BuildRequest(clients[client[t]],
                                            Kwargs(ApiOf(call[t].name), call[t].arg)),
                             answer |-> o]]
            /\ sent' = [sent EXCEPT ![t] = sent[t] + 1]
            /\ response' = [response EXCEPT ![t] = o]
    /\ pc' = [pc EXCEPT ![t] = "sent"]
    /\ UNCHANGED <<ctor, handle, clients, call, client, result, opened, memo, script, passed>>

\* Variant: a transport failure is retried once.
SendWithRetry(t, o) ==
    /\ pc[t] = "with"
    /\ wire' = [wire EXCEPT ![t] =
                    [request |-> BuildRequest(clients[client[t]],
                                    Kwargs(ApiOf(call[t].name), call[t].arg)),
                     answer |-> o]]
    /\ sent' = [sent EXCEPT ![t] =
                    IF o.kind \in TransportErrors THEN sent[t] + 2 ELSE sent[t] + 1]
    /\ response' = [response EXCEPT ![t] = o]
    /\ pc' = [pc EXCEPT ![t] = "sent"]
    /\ UNCHANGED <<ctor, handle, clients, call, client, result, opened, memo, script, passed>>

\* Variant: an operation request without accountId is rejected before
\* anything is sent.
SendValidated(t, o) ==
    /\ pc[t] = "with"
    /\ IF /\ call[t].name \in OperationsWriteApi
          /\ "accountId" \notin Keys(call[t].arg)
       THEN /\ response' = [response EXCEPT ![t] = Raised("ValueError")]
            /\ UNCHANGED <<wire, sent>>
       ELSE /\ wire' = [wire EXCEPT ![t] =
                            [request |-> BuildRequest(clients[client[t]],
                                            Kwargs(ApiOf(call[t].name), call[t].arg)),
                             answer |-> o]]
            /\ sent' = [sent EXCEPT ![t] = sent[t] + 1]
            /\ response' = [response EXCEPT ![t] = o]
    /\ pc' = [pc EXCEPT ![t] = "sent"]
    /\ UNCHANGED <<ctor, handle, clients, call, client, result, opened, memo, script, passed>>

\* client.get(...) / client.post(...) inside the with block: one request
\* goes out and the network answers with o, or fails with o.
Send(t, o) ==
    /\ pc[t] = "with"
    /\ LET cl == clients[client[t]]
           kw == Kwargs(ApiOf(call[t].name), call[t].arg)
       IN  IF cl.state = "opened"
           THEN /\ wire' = [wire EXCEPT ![t] =
                                [request |-> BuildRequest(cl, kw), answer |-> o]]
                /\ sent' = [sent EXCEPT ![t] = sent[t] + 1]
                /\ response' = [response EXCEPT ![t] = o]
           ELSE /\ response' = [response EXCEPT ![t] = Raised("RuntimeError")]
                /\ UNCHANGED <<wire, sent>>
    /\ call' = [call EXCEPT ![t].arg =
                    ArgumentAfter(ApiOf(call[t].name), call[t].arg)]
    /\ pc' = [pc EXCEPT ![t] = "sent"]
    /\ UNCHANGED <<ctor, handle, clients, client, result, opened, memo, script, passed>>

\* The with block is left (by `return response` or by the exception):
\* __exit__ closes the client, and the method, or the high-level method
\* that called it, finishes.
Exit(t) ==
    /\ pc[t] = "sent"
    /\ clients' = client_exit(clients, client[t], response[t].kind)
    /\ client' = [client EXCEPT ![t] = 0]
    /\ result' = [result EXCEPT ![t] = MethodResult(call[t].name, response[t])]
    /\ response' = [response EXCEPT ![t] = NoOutcome]
    /\ pc' = [pc EXCEPT ![t] = "done"]
    /\ UNCHANGED <<ctor, handle, call, wire, opened, sent, memo, script, passed>>

\* A server that answers a write with 201 and the very body it was sent.
Echo(t) ==
    IF pc[t] = "with" /\ call[t].name \in WriteApi
    THEN {Response(201, BuildRequest(clients[client[t]],
                            Kwargs(call[t].name, call[t].arg)).body)}
    ELSE {}

\* One caller using the handles, one call after the other.
Next ==
    \/ \E c \in Calls : Invoke(MainThread, c)
    \/ \E o \in Outcomes \cup Echo(MainThread) : Send(MainThread, o)
    \/ Exit(MainThread)

Spec == Init /\ [][Next]_vars

\* Several threads sharing the handles, their calls interleaved at every
\* step.
ThreadCalls ==
    {[name |-> "get_tariff_document", arg |-> PyStr("A1")],
     [name |-> "make_fee_operation_api",
      arg |-> PyDict(OwnFields("make_fee_operation_api"))]}

ThreadOutcomes ==
    {Response(200, TariffBody), Response(404, ErrorBody), Raised("ConnectError")}

NextThreads ==
    \E t \in Threads :
        \/ \E c \in ThreadCalls : Invoke(t, c)
        \/ \E o \in ThreadOutcomes : Send(t, o)
        \/ Exit(t)

SpecThreads == Init /\ [][NextThreads]_vars

-----------------------------------------------------------------------------
(* The workflow scripts: api_client_get_documents.py, which goes through  *)
(* the gateway clients, and the two standalone httpx scripts.              *)

ScriptNames ==
    {"api_client_get_documents", "httpx_get_operation_receipt",
     "httpx_open_deposit_account"}

FirstStep(name) ==
    IF name = "api_client_get_documents" THEN "build_clients" ELSE "create_user"

StartOf(name) == [NoScript EXCEPT !.name = name, !.step = FirstStep(name)]

\* What the gateway can answer to a request of a script.
UserBody == JObject(<<<<"user", JObject(<<<<"id", JString("U1")>>>>)>>>>)
FlatUserBody == JObject(<<<<"id", JString("U1")>>>>)
EmptyIdBody ==
    JObject(<<<<"user", JObject(<<<<"id", JString("")>>>>)>>,
              <<"account", JObject(<<<<"id", JString("")>>>>)>>>>)
NullBody == JObject(<<<<"user", JNull>>, <<"id", JNull>>>>)
AccountBody ==
    JObject(<<<<"account", JObject(<<<<"id", JString("A1")>>>>)>>,
              <<"cards", JArray(<<JObject(<<<<"id", JString("C1")>>>>)>>)>>>>)
NoCardsBody ==
    JObject(<<<<"account", JObject(<<<<"id", JString("A1")>>>>)>>,
              <<"cards", JArray(<<>>)>>>>)
OperationBody == JObject(<<<<"operationId", JString("op1")>>>>)

ScriptBodies ==
    {UserBody, FlatUserBody, EmptyIdBody, NullBody, AccountBody, NoCardsBody,
     OperationBody, TariffBody, HtmlBody}

ScriptOutcomes ==
    {Response(sc, b) : sc \in StatusCodes \cup {201}, b \in ScriptBodies}
        \cup {Raised(e) : e \in TransportErrors}

\* The exchange is added to what the script has done so far.
Logged(sc, request, o) ==
    [sc EXCEPT !.log = Append(@, [request |-> request, answer |-> o])]

\* The process ends: by exception `raised` ("" when none was raised), with
\* exit status `status`.
Ended(sc, raised, status) ==
    [sc EXCEPT !.step = "end", !.raised = raised, !.exited = TRUE,
               !.status = status]

\* str(x) inside an f-string.
format(x) == IF x.t = "None" THEN "None" ELSE x.v

(* api_client_get_documents.py *)

\* UsersGatewayHTTPClient(base_url="http://localhost:8080") and its like.
GatewayClient == HTTPClient_init(<<"http://localhost:8080">>, "10.0")

\* UsersGatewayHTTPClient.create_user_api
create_user_api(request) ==
    client_post(<<"api", "v1", "users">>, request, ContentJson)

\* AccountsGatewayHTTPClient.open_credit_card_account_api
open_credit_card_account_api(request) ==
    client_post(<<"api", "v1", "accounts", "open-credit-card-account">>,
                request, ContentJson)

user_request ==
    PyDict(<<<<"email", PyStr("user.T@example.com")>>,
             <<"lastName", PyStr("Ivanov")>>, <<"firstName", PyStr("Ivan")>>,
             <<"middleName", PyStr("Ivanovich")>>,
             <<"phoneNumber", PyStr("+79991234567")>>>>)

account_request(user_id) ==
    PyDict(<<<<"userId", user_id>>, <<"currency", PyStr("RUB")>>,
             <<"creditLimit", PyFloat("50000.0")>>,
             <<"interestRate", PyFloat("15.5")>>,
             <<"cardType", PyStr("PHYSICAL")>>>>)

\* create_user(client): the call, raise_for_status(), json(); whatever is
\* raised is logged and raised again.
create_user(low) ==
    IF low.kind # "response" THEN low
    ELSE IF raise_for_status(low.response).kind # "none"
         THEN raise_for_status(low.response)
         ELSE json(low.response)

open_credit_card_account(low) ==
    IF low.kind # "response" THEN low
    ELSE IF raise_for_status(low.response).kind # "none"
         THEN raise_for_status(low.response)
         ELSE json(low.response)

\* Variant: the id is looked for at the top of the response.
response_id_top_level(data, key) == dict_get(data, "id", PyNone)

\* response.get(key, {}).get("id")
response_id(data, key) ==
    dict_get(dict_get(data, key, PyDict(<<>>)), "id", PyNone)

\* main(): `except Exception` logs the error and calls sys.exit(1).
documents_main_except(sc, exception) == Ended(sc, exception, 1)

\* The three build_*_gateway_http_client() calls; an import that fails is
\* logged and raised again.
DocumentsBuildClients(importable) ==
    /\ script.name = "api_client_get_documents"
    /\ script.step = "build_clients"
    /\ script' = IF importable THEN [script EXCEPT !.step = "create_user"]
                 ELSE documents_main_except(script, "ImportError")
    /\ UNCHANGED <<ctor, handle, clients, pc, call, client, response, result,
                   wire, opened, sent, memo, passed>>

DocumentsCreateUser(o) ==
    /\ script.name = "api_client_get_documents"
    /\ script.step = "create_user"
    /\ LET request == BuildRequest(GatewayClient, create_user_api(user_request))
           done == Logged(script, request, o)
           user_response == create_user(api_return(o))
           user_id == response_id(user_response.value, "user")
       IN  script' =
                IF user_response.kind # "value"
                THEN documents_main_except(done, user_response.kind)
                ELSE IF Raises(user_id)
                THEN documents_main_except(done, user_id.t)
                ELSE IF py_not(user_id)
                THEN documents_main_except(done, "ValueError")
                ELSE [done EXCEPT !.step = "open_account", !.user_id = user_id]
    /\ UNCHANGED <<ctor, handle, clients, pc, call, client, response, result,
                   wire, opened, sent, memo, passed>>

DocumentsOpenAccount(o) ==
    /\ script.name = "api_client_get_documents"
    /\ script.step = "open_account"
    /\ LET request == BuildRequest(GatewayClient,
                        open_credit_card_account_api(account_request(script.user_id)))
           done == Logged(script, request, o)
           account_response == open_credit_card_account(api_return(o))
           account_id == response_id(account_response.value, "account")
       IN  script' =
                IF account_response.kind # "value"
                THEN documents_main_except(done, account_response.kind)
                ELSE IF Raises(account_id)
                THEN documents_main_except(done, account_id.t)
                ELSE IF py_not(account_id)
                THEN documents_main_except(done, "ValueError")
                ELSE [done EXCEPT !.step = "tariff", !.account_id = account_id]
    /\ UNCHANGED <<ctor, handle, clients, pc, call, client, response, result,
                   wire, opened, sent, memo, passed>>

DocumentsGetTariff(o) ==
    /\ script.name = "api_client_get_documents"
    /\ script.step = "tariff"
    /\ LET request == BuildRequest(handle["documents"],
                        Kwargs("get_tariff_document_api", script.account_id))
           done == Logged(script, request, o)
           tariff_response == MethodResult("get_tariff_document", o)
       IN  script' =
                IF tariff_response.kind # "value"
                THEN documents_main_except(done, tariff_response.kind)
                ELSE [done EXCEPT !.step = "contract"]
    /\ UNCHANGED <<ctor, handle, clients, pc, call, client, response, result,
                   wire, opened, sent, memo, passed>>

DocumentsGetContract(o) ==
    /\ script.name = "api_client_get_documents"
    /\ script.step = "contract"
    /\ LET request == BuildRequest(handle["documents"],
                        Kwargs("get_contract_document_api", script.account_id))
           done == Logged(script, request, o)
           contract_response == MethodResult("get_contract_document", o)
       IN  script' =
                IF contract_response.kind # "value"
                THEN documents_main_except(done, contract_response.kind)
                ELSE Ended(done, "", 0)
    /\ UNCHANGED <<ctor, handle, clients, pc, call, client, response, result,
                   wire, opened, sent, memo, passed>>

(* httpx_get_operation_receipt.py and httpx_open_deposit_account.py *)

\* httpx.post(f"{BASE_URL}...", json=..., timeout=10) and httpx.get(...):
\* a client of its own for the one request.
StandaloneClient == [base_url |-> <<"http://localhost:8003">>, timeout |-> "10"]

\* Variant: the body is decoded without a look at the status.
unchecked_json(got) ==
    IF got.kind # "response" THEN Raise(got.kind, NoOutcome) ELSE json(got)

\* resp.raise_for_status() and then resp.json(), for what httpx.post or
\* httpx.get produced.
checked_json(got) ==
    IF got.kind # "response" THEN Raise(got.kind, NoOutcome)
    ELSE IF raise_for_status(got).kind # "none" THEN raise_for_status(got)
    ELSE json(got)

\* `except Exception as e: print(f"Error: {e}")` of the __main__ block: the
\* module ends normally after the print.
receipt_main_except(sc, exception) == Ended(sc, exception, 0)

\* The two except clauses of httpx_open_deposit_account.main(): both print
\* and return.
deposit_main_except(sc, exception) == Ended(sc, exception, 0)

ReceiptCreateUser(o) ==
    /\ script.name = "httpx_get_operation_receipt"
    /\ script.step = "create_user"
    /\ LET json_body == PyDict(<<<<"email", PyStr("user_T@bank.com")>>,
                                 <<"firstName", PyStr("Ivan")>>,
                                 <<"lastName", PyStr("Petrov")>>>>)
           request == BuildRequest(StandaloneClient,
                        client_post(<<"api", "v1", "users">>, json_body, <<>>))
           done == Logged(script, request, o)
           data == checked_json(o)
           user_id == getitem(data.value, "id")
       IN  script' =
                IF data.kind # "value" THEN receipt_main_except(done, data.kind)
                ELSE IF Raises(user_id) THEN receipt_main_except(done, user_id.t)
                ELSE [done EXCEPT !.step = "open_account", !.user_id = user_id]
    /\ UNCHANGED <<ctor, handle, clients, pc, call, client, response, result,
                   wire, opened, sent, memo, passed>>

ReceiptOpenAccount(o) ==
    /\ script.name = "httpx_get_operation_receipt"
    /\ script.step = "open_account"
    /\ LET json_body == PyDict(<<<<"userId", script.user_id>>,
                                 <<"creditLimit", PyInt("50000")>>,
                                 <<"currency", PyStr("RUB")>>>>)
           request == BuildRequest(StandaloneClient,
                        client_post(<<"api", "v1", "accounts",
                                      "open-credit-card-account">>, json_body, <<>>))
           done == Logged(script, request, o)
           credit_data == checked_json(o)
           account_id == getitem(getitem(credit_data.value, "account"), "id")
           card_id == getitem(getitem_0(getitem(credit_data.value, "cards")), "id")
       IN  script' =
                IF credit_data.kind # "value"
                THEN receipt_main_except(done, credit_data.kind)
                ELSE IF Raises(account_id)
                THEN receipt_main_except(done, account_id.t)
                ELSE IF Raises(card_id)
                THEN receipt_main_except(done, card_id.t)
                ELSE [done EXCEPT !.step = "purchase", !.account_id = account_id,
                                  !.card_id = card_id]
    /\ UNCHANGED <<ctor, handle, clients, pc, call, client, response, result,
                   wire, opened, sent, memo, passed>>

ReceiptMakePurchase(o) ==
    /\ script.name = "httpx_get_operation_receipt"
    /\ script.step = "purchase"
    /\ LET json_body == PyDict(<<<<"status", PyStr("IN_PROGRESS")>>,
                                 <<"amount", PyFloat("77.99")>>,
                                 <<"category", PyStr("taxi")>>,
                                 <<"cardId", script.card_id>>,
                                 <<"accountId", script.account_id>>>>)
           request == BuildRequest(StandaloneClient,
                        client_post(<<"api", "v1", "operations",
                                      "make-purchase-operation">>, json_body, <<>>))
           done == Logged(script, request, o)
           data == checked_json(o)
           operation_id == getitem(data.value, "operationId")
       IN  script' =
                IF data.kind # "value" THEN receipt_main_except(done, data.kind)
                ELSE IF Raises(operation_id)
                THEN receipt_main_except(done, operation_id.t)
                ELSE [done EXCEPT !.step = "receipt", !.operation_id = operation_id]
    /\ UNCHANGED <<ctor, handle, clients, pc, call, client, response, result,
                   wire, opened, sent, memo, passed>>

ReceiptGetReceipt(o) ==
    /\ script.name = "httpx_get_operation_receipt"
    /\ script.step = "receipt"
    /\ LET request == BuildRequest(StandaloneClient,
                        client_get(<<"api", "v1", "operations", "operation-receipt",
                                     format(script.operation_id)>>, PyNone, <<>>))
           done == Logged(script, request, o)
           receipt_data == checked_json(o)
       IN  script' =
                IF receipt_data.kind # "value"
                THEN receipt_main_except(done, receipt_data.kind)
                ELSE Ended(done, "", 0)
    /\ UNCHANGED <<ctor, handle, clients, pc, call, client, response, result,
                   wire, opened, sent, memo, passed>>

\* main() of httpx_open_deposit_account.py prints response.status_code and
\* response.json() of whatever create_deposit_account returned.
print_response(got) ==
    IF got.kind # "response" THEN Raise(got.kind, NoOutcome) ELSE json(got)

\* create_user() of httpx_open_deposit_account.py
DepositCreateUser(o) ==
    /\ script.name = "httpx_open_deposit_account"
    /\ script.step = "create_user"
    /\ LET payload == PyDict(<<<<"email", PyStr("user_T@example.com")>>,
                               <<"firstName", PyStr("Test")>>,
                               <<"lastName", PyStr("User")>>,
                               <<"phone", PyStr("+79991234567")>>>>)
           request == BuildRequest(StandaloneClient,
                        client_post(<<"api", "v1", "users">>, payload, <<>>))
           done == Logged(script, request, o)
           user_data == checked_json(o)
           user_id == getitem(user_data.value, "id")
       IN  script' =
                IF user_data.kind # "value"
                THEN deposit_main_except(done, user_data.kind)
                ELSE IF Raises(user_id) THEN deposit_main_except(done, user_id.t)
                ELSE [done EXCEPT !.step = "open_account", !.user_id = user_id]
    /\ UNCHANGED <<ctor, handle, clients, pc, call, client, response, result,
                   wire, opened, sent, memo, passed>>

\* create_deposit_account(user_id) and the printing of its response: the
\* status is printed, not checked.
DepositCreateAccount(o) ==
    /\ script.name = "httpx_open_deposit_account"
    /\ script.step = "open_account"
    /\ LET payload == PyDict(<<<<"userId", script.user_id>>,
                               <<"currency", PyStr("RUB")>>,
                               <<"initialDeposit", PyFloat("1000.0")>>>>)
           request == BuildRequest(StandaloneClient,
                        client_post(<<"api", "v1", "accounts",
                                      "open-deposit-account">>, payload, <<>>))
           done == Logged(script, request, o)
           printed == print_response(o)
       IN  script' =
                IF printed.kind # "value"
                THEN deposit_main_except(done, printed.kind)
                ELSE Ended(done, "", 0)
    /\ UNCHANGED <<ctor, handle, clients, pc, call, client, response, result,
                   wire, opened, sent, memo, passed>>

InitScripts ==
    /\ ctor = [base_url |-> <<"http://localhost:8080">>, timeout |-> "10.0"]
    /\ handle = [r \in Resources |-> HTTPClient_init(ctor.base_url, ctor.timeout)]
    /\ script \in {StartOf(name) : name \in ScriptNames}
    /\ NothingCalled

NextScripts ==
    \/ \E importable \in BOOLEAN : DocumentsBuildClients(importable)
    \/ \E o \in ScriptOutcomes : DocumentsCreateUser(o)
    \/ \E o \in ScriptOutcomes : DocumentsOpenAccount(o)
    \/ \E o \in ScriptOutcomes : DocumentsGetTariff(o)
    \/ \E o \in ScriptOutcomes : DocumentsGetContract(o)
    \/ \E o \in ScriptOutcomes : ReceiptCreateUser(o)
    \/ \E o \in ScriptOutcomes : ReceiptOpenAccount(o)
    \/ \E o \in ScriptOutcomes : ReceiptMakePurchase(o)
    \/ \E o \in ScriptOutcomes : ReceiptGetReceipt(o)
    \/ \E o \in ScriptOutcomes : DepositCreateUser(o)
    \/ \E o \in ScriptOutcomes : DepositCreateAccount(o)

SpecScripts == InitScripts /\ [][NextScripts]_vars

-----------------------------------------------------------------------------
(* Properties.                                                             *)

Finished(t) == pc[t] = "done"
Answered(t) == wire[t].answer.kind = "response"
Success(t) == wire[t].answer.status_code \in 200..299
IsJson(body) == body.t \in {"object", "array", "string", "number", "null"}

\* C1: a low-level (*_api) method hands its caller the very response the
\* server gave, status code and body untouched, whatever the status; it
\* never raises a status error or a decode error.
C1_LowLevelReturnsRawResponse ==
    \A t \in Threads :
        (Finished(t) /\ call[t].name \in LowLevel) =>
            /\ result[t].kind \notin {"HTTPStatusError", "JSONDecodeError"}
            /\ Answered(t) =>
                /\ result[t].kind = "response"
                /\ result[t].response.status_code = wire[t].answer.status_code
                /\ result[t].response.body = wire[t].answer.body

C1_Witness ==
    /\ Finished(MainThread)
    /\ call[MainThread].name = "get_operation_receipt_api"
    /\ wire[MainThread].answer = Response(404, HtmlBody)
    /\ result[MainThread].kind = "response"
    /\ result[MainThread].response.status_code = 404

\* C2: get_tariff_document and get_contract_document return exactly the
\* decoded body on a 2xx answer with a well-formed body, and on any other
\* status fail with a status error carrying that status code, returning no
\* value.
C2_HighLevelStatusContract ==
    \A t \in Threads :
        (Finished(t) /\ call[t].name \in HighLevel /\ Answered(t)) =>
            /\ (Success(t) /\ IsJson(wire[t].answer.body)) =>
                /\ result[t].kind = "value"
                /\ json_dumps(result[t].value) = wire[t].answer.body
            /\ ~Success(t) =>
                /\ result[t].kind = "HTTPStatusError"
                /\ result[t].response.status_code = wire[t].answer.status_code
                /\ result[t].value = PyNone

C2_Witness ==
    /\ Finished(MainThread)
    /\ call[MainThread].name = "get_contract_document"
    /\ wire[MainThread].answer.status_code = 302
    /\ result[MainThread].kind = "HTTPStatusError"
    /\ result[MainThread].response.status_code = 302

\* C3: a high-level document method that gets a 2xx answer whose body is
\* not decodable fails with a decode error; it returns no value.
C3_UndecodableBodyRaises ==
    \A t \in Threads :
        (/\ Finished(t) /\ call[t].name \in HighLevel /\ Answered(t)
         /\ Success(t) /\ ~IsJson(wire[t].answer.body)) =>
            /\ result[t].kind = "JSONDecodeError"
            /\ result[t].value = PyNone

C3_Witness ==
    /\ Finished(MainThread)
    /\ call[MainThread].name = "get_tariff_document"
    /\ wire[MainThread].answer = Response(200, HtmlBody)
    /\ result[MainThread].kind = "JSONDecodeError"

\* C4: every call creates exactly one httpx.Client and has closed it when
\* control is back with the caller, on a returned response as on a
\* transport failure or a timeout; with no call in progress no client is
\* open.
C4_OneConnectionReleased ==
    /\ \A t \in Threads : Finished(t) => opened[t] = 1
    /\ \A t \in Threads : pc[t] \in {"with", "sent"} => opened[t] = 1
    /\ Cardinality(OpenClients) =
            Cardinality({t \in Threads : pc[t] \in {"with", "sent"}})
    /\ (\A t \in Threads : pc[t] \in {"idle", "done"}) => OpenClients = {}

C4_Witness ==
    /\ Finished(MainThread)
    /\ wire[MainThread].answer.kind = "ReadTimeout"
    /\ opened[MainThread] = 1
    /\ OpenClients = {}
    /\ \E id \in ClientIds : clients[id].state = "closed"

\* C5: one invocation of a client method puts exactly one request on the
\* wire; when the transport fails the failure reaches the caller and
\* nothing more is sent.
C5_SingleRequestNoRetry ==
    \A t \in Threads :
        /\ sent[t] <= 1
        /\ Finished(t) =>
            /\ sent[t] = 1
            /\ wire[t].answer.kind \in TransportErrors =>
                    result[t].kind = wire[t].answer.kind

C5_Witness ==
    /\ Finished(MainThread)
    /\ call[MainThread].name = "make_purchase_operation_api"
    /\ wire[MainThread].answer.kind = "ConnectError"
    /\ result[MainThread].kind = "ConnectError"
    /\ sent[MainThread] = 1

\* What the request of a finished call must be when only the constructor
\* arguments and the call itself decide it.
Configured == HTTPClient_init(ctor.base_url, ctor.timeout)
OwnRequest(t) ==
    BuildRequest(Configured, Kwargs(ApiOf(call[t].name), call[t].arg))

\* C6: with several threads calling methods on the shared handles, in any
\* interleaving, every call in progress holds a client of its own that no
\* other call holds, the handles' base URL and timeout keep their values,
\* and every finished call has the outcome it would have had alone: its own
\* single request, and the result of its own answer.
C6_ThreadsIndependent ==
    /\ \A r \in Resources : handle[r] = Configured
    /\ \A t \in Threads :
        pc[t] \in {"with", "sent"} =>
            /\ client[t] \in ClientIds
            /\ clients[client[t]].state = "opened"
            /\ clients[client[t]].owner = t
            /\ \A u \in Threads \ {t} : client[u] # client[t]
    /\ \A t \in Threads :
        Finished(t) =>
            /\ sent[t] = 1
            /\ opened[t] = 1
            /\ wire[t].request = OwnRequest(t)
            /\ result[t] = MethodResult(call[t].name, wire[t].answer)

C6_Witness ==
    \E t, u \in Threads :
        /\ t # u
        /\ pc[t] = "sent" /\ pc[u] = "sent"
        /\ call[t] = call[u]
        /\ client[t] # client[u]
        /\ response[t].kind = "response"
        /\ response[u].kind = "ConnectError"

Repeated(t) == memo[t].kind = "response"

\* C7: the same GET issued twice in a row with the same argument is sent
\* twice, each time over a client of its own, and the second call's result
\* is made from the server's second answer, not from the first.
C7_RepeatedGetIsSentAgain ==
    \A t \in Threads :
        Repeated(t) =>
            /\ pc[t] = "sent" => (sent[t] = 1 /\ response[t] = wire[t].answer)
            /\ Finished(t) =>
                /\ sent[t] = 1
                /\ opened[t] = 1
                /\ wire[t].request = OwnRequest(t)
                /\ ~Answered(t) => result[t].kind = wire[t].answer.kind
                /\ (Answered(t) /\ call[t].name \in LowLevel) =>
                        result[t].response = wire[t].answer
                /\ (/\ Answered(t) /\ call[t].name \in HighLevel
                    /\ Success(t) /\ IsJson(wire[t].answer.body)) =>
                        json_dumps(result[t].value) = wire[t].answer.body

C7_Witness ==
    /\ Finished(MainThread)
    /\ call[MainThread].name = "get_operations_api"
    /\ memo[MainThread] = Response(200, TariffBody)
    /\ wire[MainThread].answer = Response(404, ErrorBody)
    /\ result[MainThread].response = Response(404, ErrorBody)

\* C8: whatever calls were made before, succeeded or failed, the handles
\* hold the base URL and timeout of their construction, any method can be
\* called next, and a call's request is the one the constructor arguments
\* and the call alone decide.
C8_HandleStateless ==
    /\ \A r \in Resources :
        /\ handle[r].base_url = rstrip(ctor.base_url)
        /\ handle[r].timeout = ctor.timeout
    /\ pc[MainThread] \in {"idle", "done"} =>
            \A c \in Calls : ENABLED Invoke(MainThread, c)
    /\ \A t \in Threads :
        Finished(t) =>
            /\ result[t].kind # "RuntimeError"
            /\ wire[t].request = OwnRequest(t)

C8_Witness ==
    /\ Finished(MainThread)
    /\ Repeated(MainThread)
    /\ result[MainThread].kind = "ReadTimeout"
    /\ ctor.base_url # handle["documents"].base_url
    /\ ENABLED Invoke(MainThread, [name |-> "issue_virtual_card_api",
                                    arg |-> PyDict(CardFields)])

\* C9: the JSON body a write method sends is an object with exactly the
\* keys of the request record, each with the record's value.
C9_BodyHasExactlyRequestKeys ==
    \A t \in Threads :
        (pc[t] \in {"sent", "done"} /\ call[t].name \in WriteApi) =>
            LET body == wire[t].request.body
                request == call[t].arg
            IN  /\ body.t = "object"
                /\ DOMAIN body.v = DOMAIN request.v
                /\ \A i \in DOMAIN request.v :
                    /\ body.v[i][1] = request.v[i][1]
                    /\ json_loads(body.v[i][2]) = request.v[i][2]

C9_Witness ==
    /\ pc[MainThread] = "sent"
    /\ call[MainThread].name = "make_fee_operation_api"
    /\ Keys(call[MainThread].arg) =
            {"status", "amount", "cardId", "accountId", "feeType",
             "description", "metadata"}
    /\ Lookup(call[MainThread].arg, "description") = PyNone
    /\ \E i \in DOMAIN wire[MainThread].request.body.v :
            wire[MainThread].request.body.v[i] = <<"description", JNull>>

Range(f) == {f[i] : i \in DOMAIN f}

\* C10: the query string of get_operations_api and
\* get_operations_summary_api holds every parameter supplied with a value,
\* unchanged, and nothing for a parameter that is missing or None.
C10_AbsentParamsOmitted ==
    \A t \in Threads :
        (/\ pc[t] \in {"sent", "done"}
         /\ call[t].name \in {"get_operations_api", "get_operations_summary_api"}) =>
            LET query == wire[t].request.query
                params == call[t].arg
            IN  /\ \A i \in DOMAIN params.v :
                    params.v[i][2] # PyNone =>
                        <<params.v[i][1], params.v[i][2].v>> \in Range(query)
                /\ \A i \in DOMAIN params.v :
                    params.v[i][2] = PyNone =>
                        \A j \in DOMAIN query : query[j][1] # params.v[i][1]
                /\ \A j \in DOMAIN query : query[j][1] \in Keys(params)

\* C11: the client validates nothing: make_purchase_operation_api given a
\* request without the required accountId still sends its POST, with the
\* body holding just the fields it was given, and what the caller gets is
\* the server's answer, whatever its status.
C11_NoClientSideValidation ==
    \A t \in Threads :
        (/\ Finished(t)
         /\ call[t].name = "make_purchase_operation_api"
         /\ "accountId" \notin Keys(call[t].arg)) =>
            /\ sent[t] = 1
            /\ wire[t].request.verb = "POST"
            /\ wire[t].request.path =
                    <<"api", "v1", "operations", "make-purchase-operation">>
            /\ wire[t].request.body = json_dumps(call[t].arg)
            /\ result[t].kind \notin {"ValueError", "KeyError", "TypeError"}
            /\ Answered(t) => result[t] = Returned(wire[t].answer)

C11_Witness ==
    /\ Finished(MainThread)
    /\ call[MainThread].name = "make_purchase_operation_api"
    /\ "accountId" \notin Keys(call[MainThread].arg)
    /\ "merchantId" \in Keys(call[MainThread].arg)
    /\ sent[MainThread] = 1
    /\ wire[MainThread].answer.kind = "response"
    /\ wire[MainThread].answer.status_code = 404
    /\ result[MainThread].kind = "response"

\* The endpoint table: the HTTP method and the path of each low-level
\* method, <id> standing for the operation id the caller passes.
EndpointTable ==
    [name \in LowLevel |->
        CASE name = "issue_virtual_card_api" ->
                <<"POST", <<"api", "v1", "cards", "issue-virtual-card">>>>
          [] name = "issue_physical_card_api" ->
                <<"POST", <<"api", "v1", "cards", "issue-physical-card">>>>
          [] name = "get_tariff_document_api" ->
                <<"GET", <<"api", "v1", "documents", "tariff-document">>>>
          [] name = "get_contract_document_api" ->
                <<"GET", <<"api", "v1", "documents", "contract-document">>>>
          [] name = "get_operation_api" ->
                <<"GET", <<"api", "v1", "operations", "<id>">>>>
          [] name = "get_operation_receipt_api" ->
                <<"GET", <<"api", "v1", "operations", "operation-receipt", "<id>">>>>
          [] name = "get_operations_api" ->
                <<"GET", <<"api", "v1", "operations">>>>
          [] name = "get_operations_summary_api" ->
                <<"GET", <<"api", "v1", "operations", "operations-summary">>>>
          [] name = "make_fee_operation_api" ->
                <<"POST", <<"api", "v1", "operations", "make-fee-operation">>>>
          [] name = "make_top_up_operation_api" ->
                <<"POST", <<"api", "v1", "operations", "make-top-up-operation">>>>
          [] name = "make_cashback_operation_api" ->
                <<"POST", <<"api", "v1", "operations", "make-cashback-operation">>>>
          [] name = "make_transfer_operation_api" ->
                <<"POST", <<"api", "v1", "operations", "make-transfer-operation">>>>
          [] name = "make_purchase_operation_api" ->
                <<"POST", <<"api", "v1", "operations", "make-purchase-operation">>>>
          [] name = "make_bill_payment_operation_api" ->
                <<"POST", <<"api", "v1", "operations", "make-bill-payment-operation">>>>
          [] name = "make_cash_withdrawal_operation_api" ->
                <<"POST", <<"api", "v1", "operations",
                            "make-cash-withdrawal-operation">>>>]

\* The row's path with the operation id put in place of <id>.
RowPath(name, arg) ==
    LET path == EndpointTable[name][2]
    IN  [i \in DOMAIN path |-> IF path[i] = "<id>" THEN arg.v ELSE path[i]]

\* C12: every method sends the HTTP method and the path of its own row of
\* the endpoint table (the seven make-*-operation methods and the two card
\* methods POST, the read methods GET), and no two rows have the same
\* method and path.
C12_MethodSendsItsOwnEndpoint ==
    /\ \A t \in Threads :
        (pc[t] \in {"sent", "done"} /\ sent[t] > 0) =>
            LET name == ApiOf(call[t].name)
            IN  /\ wire[t].request.verb = EndpointTable[name][1]
                /\ wire[t].request.path = RowPath(name, call[t].arg)
                /\ name \in WriteApi => wire[t].request.verb = "POST"
                /\ name \in ReadApi => wire[t].request.verb = "GET"
    /\ \A m, n \in LowLevel : EndpointTable[m] = EndpointTable[n] => m = n

C12_Witness ==
    /\ pc[MainThread] = "sent"
    /\ call[MainThread].name = "make_top_up_operation_api"
    /\ wire[MainThread].request.verb = "POST"
    /\ wire[MainThread].request.path =
            <<"api", "v1", "operations", "make-top-up-operation">>

\* C13: on every call, a write method's request carries
\* Content-Type: application/json and Accept: application/json, and a read
\* method's request carries Accept: application/json.
C13_JsonHeadersOnEveryCall ==
    \A t \in Threads :
        (pc[t] \in {"sent", "done"} /\ sent[t] > 0) =>
            LET headers == wire[t].request.headers
                name == ApiOf(call[t].name)
            IN  /\ "Accept" \in DOMAIN headers
                /\ headers["Accept"] = "application/json"
                /\ name \in WriteApi =>
                    /\ "Content-Type" \in DOMAIN headers
                    /\ headers["Content-Type"] = "application/json"

C13_Witness ==
    /\ pc[MainThread] = "sent"
    /\ call[MainThread].name = "get_operation_receipt_api"
    /\ Repeated(MainThread)
    /\ wire[MainThread].request.headers["Accept"] = "application/json"
    /\ "Content-Type" \notin DOMAIN wire[MainThread].request.headers

Missing == [t |-> "missing", v |-> ""]
JMember(j, key) ==
    IF j.t = "object" /\ \E i \in DOMAIN j.v : j.v[i][1] = key
    THEN j.v[CHOOSE i \in DOMAIN j.v : j.v[i][1] = key][2]
    ELSE Missing
Present(id) == id.t \notin {"missing", "null"} /\ id # JString("")
Endpoint(exchange) == <<exchange.request.verb, exchange.request.path>>

DocumentsOrder ==
    <<<<"POST", <<"api", "v1", "users">>>>,
      <<"POST", <<"api", "v1", "accounts", "open-credit-card-account">>>>,
      <<"GET", <<"api", "v1", "documents", "tariff-document">>>>,
      <<"GET", <<"api", "v1", "documents", "contract-document">>>>>>

\* C15: the documents workflow sends create user, open credit-card account,
\* get tariff, get contract, in this order; the account is opened with the
\* id found at user.id of the create-user response, both document requests
\* carry the id found at account.id of the open-account response, and a
\* response whose id is missing or empty is followed by no further request.
C15_DocumentsWorkflowOrderAndIds ==
    script.name = "api_client_get_documents" =>
        LET log == script.log
            user_id == JMember(JMember(log[1].answer.body, "user"), "id")
            account_id == JMember(JMember(log[2].answer.body, "account"), "id")
        IN  /\ Len(log) <= 4
            /\ \A i \in DOMAIN log : Endpoint(log[i]) = DocumentsOrder[i]
            /\ Len(log) >= 2 =>
                /\ Present(user_id)
                /\ JMember(log[2].request.body, "userId") = user_id
            /\ Len(log) >= 3 =>
                /\ Present(account_id)
                /\ log[3].request.query = <<<<"accountId", account_id.v>>>>
            /\ Len(log) >= 4 =>
                log[4].request.query = <<<<"accountId", account_id.v>>>>
            /\ (script.exited /\ script.raised = "") => Len(log) = 4

C15_Witness ==
    /\ script.name = "api_client_get_documents"
    /\ script.exited
    /\ script.status = 0
    /\ Len(script.log) = 4
    /\ script.log[1].answer.body = UserBody
    /\ JMember(script.log[2].request.body, "userId") = JString("U1")
    /\ script.log[2].answer.body = AccountBody
    /\ script.log[3].request.query = <<<<"accountId", "A1">>>>
    /\ script.log[4].request.query = <<<<"accountId", "A1">>>>

\* An exchange whose answer is a response with a 2xx status.
Answered2xx(exchange) ==
    /\ exchange.answer.kind = "response"
    /\ exchange.answer.status_code \in 200..299
StepFailed ==
    \/ script.raised # ""
    \/ \E i \in DOMAIN script.log : ~Answered2xx(script.log[i])

\* C16: every workflow script reports a terminal failure to its own caller:
\* when a step failed (the server could not be reached, a status was not
\* 2xx, a body could not be decoded, an id was missing) the script ends with
\* a non-zero exit status, never the way a successful run ends.
C16_FailureReportedToCaller ==
    (script.exited /\ StepFailed) => script.status # 0

JFirst(j) == IF j.t = "array" /\ j.v # <<>> THEN j.v[1] ELSE Missing

\* C17: in the standalone scripts a request is sent only after every earlier
\* request got a 2xx answer and its identifier was taken from it: run_workflow
\* sends create user, open credit-card account, make purchase, get receipt in
\* this order, each with the ids of the answers before it, and in
\* httpx_open_deposit_account the open-deposit-account request follows only a
\* 2xx answer to create user and carries that user's id.
C17_StandaloneStepsNeedEarlierSuccess ==
    LET log == script.log
        user_id == JMember(log[1].answer.body, "id")
    IN  /\ script.name = "httpx_get_operation_receipt" =>
            LET account_id == JMember(JMember(log[2].answer.body, "account"), "id")
                card_id == JMember(JFirst(JMember(log[2].answer.body, "cards")), "id")
                operation_id == JMember(log[3].answer.body, "operationId")
            IN  /\ Len(log) <= 4
                /\ \A i \in DOMAIN log : i > 1 => Answered2xx(log[i - 1])
                /\ Len(log) >= 1 =>
                    Endpoint(log[1]) = <<"POST", <<"api", "v1", "users">>>>
                /\ Len(log) >= 2 =>
                    /\ Endpoint(log[2]) =
                          <<"POST", <<"api", "v1", "accounts",
                                      "open-credit-card-account">>>>
                    /\ user_id # Missing
                    /\ JMember(log[2].request.body, "userId") = user_id
                /\ Len(log) >= 3 =>
                    /\ Endpoint(log[3]) =
                          <<"POST", <<"api", "v1", "operations",
                                      "make-purchase-operation">>>>
                    /\ account_id # Missing
                    /\ card_id # Missing
                    /\ JMember(log[3].request.body, "accountId") = account_id
                    /\ JMember(log[3].request.body, "cardId") = card_id
                /\ Len(log) >= 4 =>
                    /\ operation_id # Missing
                    /\ Endpoint(log[4]) =
                          <<"GET", <<"api", "v1", "operations", "operation-receipt",
                                     operation_id.v>>>>
        /\ script.name = "httpx_open_deposit_account" =>
            /\ Len(log) <= 2
            /\ Len(log) >= 1 =>
                Endpoint(log[1]) = <<"POST", <<"api", "v1", "users">>>>
            /\ Len(log) >= 2 =>
                /\ Endpoint(log[2]) =
                      <<"POST", <<"api", "v1", "accounts", "open-deposit-account">>>>
                /\ Answered2xx(log[1])
                /\ user_id # Missing
                /\ JMember(log[2].request.body, "userId") = user_id

C17_Witness ==
    /\ script.name = "httpx_get_operation_receipt"
    /\ script.exited
    /\ script.raised = ""
    /\ Len(script.log) = 4
    /\ script.log[1].answer = Response(201, FlatUserBody)
    /\ script.log[3].answer.body = OperationBody
    /\ script.log[4].request.path =
            <<"api", "v1", "operations", "operation-receipt", "op1">>

\* The request the call of thread t would have made had the caller passed
\* the same record without its metadata.
RequestWithoutMetadata(t) ==
    BuildRequest(Configured,
                 Kwargs(call[t].name, PyDict(WithoutKey(passed[t].v, "metadata"))))

\* C18: a client method leaves the caller's request or query record as it
\* was passed, metadata map included; the metadata goes into the body as
\* given and decides nothing: method, path, query and headers are those of
\* the same call without metadata.
C18_CallerRecordUntouched ==
    \A t \in Threads :
        (/\ pc[t] \in {"sent", "done"}
         /\ sent[t] > 0
         /\ passed[t].t = "dict") =>
            /\ call[t].arg = passed[t]
            /\ "metadata" \in Keys(passed[t]) =>
                /\ JMember(wire[t].request.body, "metadata") =
                        json_dumps(Lookup(passed[t], "metadata"))
                /\ wire[t].request.verb = RequestWithoutMetadata(t).verb
                /\ wire[t].request.path = RequestWithoutMetadata(t).path
                /\ wire[t].request.query = RequestWithoutMetadata(t).query
                /\ wire[t].request.headers = RequestWithoutMetadata(t).headers

C18_Witness ==
    /\ Finished(MainThread)
    /\ call[MainThread].name = "make_transfer_operation_api"
    /\ sent[MainThread] = 1
    /\ "metadata" \in Keys(passed[MainThread])
    /\ Lookup(passed[MainThread], "description") = PyNone
    /\ call[MainThread].arg = passed[MainThread]
    /\ JMember(wire[MainThread].request.body, "metadata") =
            JObject(<<<<"source", JString("app")>>, <<"retries", JNumber("0")>>>>)

\* C19: a high-level document method looks at the status before it decodes:
\* an answer that is not 2xx always ends in the status error carrying that
\* answer, also when its body is malformed or empty; the body of such an
\* answer is never decoded (no decode error) and never returned.
C19_StatusCheckedBeforeDecoding ==
    \A t \in Threads :
        (/\ Finished(t)
         /\ call[t].name \in HighLevel
         /\ Answered(t)
         /\ ~Success(t)) =>
            /\ result[t].kind # "JSONDecodeError"
            /\ result[t].kind # "value"
            /\ result[t] = Raise("HTTPStatusError", wire[t].answer)

C19_Witness ==
    /\ Finished(MainThread)
    /\ call[MainThread].name = "get_tariff_document"
    /\ wire[MainThread].answer = Response(500, NoBody)
    /\ result[MainThread].kind = "HTTPStatusError"

\* The paths of the operations endpoints other than fetch-by-id and
\* receipt-by-id.
OtherOperationsPaths ==
    {EndpointTable[name][2] :
        name \in (OperationsReadApi \cup OperationsWriteApi)
                    \ {"get_operation_api", "get_operation_receipt_api"}}

\* C20: for every operation id that is a valid path segment, the path of
\* get_operation_api is /api/v1/operations/<id> and is not the path of any
\* other operations endpoint (operations-summary, a make-*-operation path),
\* and the path of get_operation_receipt_api is
\* /api/v1/operations/operation-receipt/<id> with the same id.
C20_OperationPathIsItsOwn ==
    \A t \in Threads :
        (pc[t] \in {"sent", "done"} /\ sent[t] > 0) =>
            /\ call[t].name = "get_operation_api" =>
                /\ wire[t].request.path =
                        <<"api", "v1", "operations", passed[t].v>>
                /\ wire[t].request.path \notin OtherOperationsPaths
            /\ call[t].name = "get_operation_receipt_api" =>
                /\ wire[t].request.path =
                        <<"api", "v1", "operations", "operation-receipt", passed[t].v>>
                /\ wire[t].request.path \notin OtherOperationsPaths

====
